---- MODULE Spec2Model ----
(***************************************************************************)
(* Model of build.py, the DaxStudio build script: a command dispatcher     *)
(* (main) over five operations (build, rebuild, restore, test, run_app)    *)
(* that execute external tools through run_cmd / subprocess.Popen.         *)
(*                                                                         *)
(* A Python string is a sequence of pieces: words typed by the user are    *)
(* spelled character by character, the script's literals are one piece.    *)
(* String concatenation is \o.  sys.argv[k] of the script is argv[k] here  *)
(* (the program name sys.argv[0] is left out), so len(sys.argv) is         *)
(* Len(argv) + 1.                                                          *)
(***************************************************************************)
EXTENDS Integers, Sequences, FiniteSets, TLC

VARIABLES argv, cwd, tools, files, pc, stdout, procs, checks, exitCode, uncaught

vars == <<argv, cwd, tools, files, pc, stdout, procs, checks, exitCode, uncaught>>

\* ------------------------------------------------------------------ bounds
MaxArgs == 3
MaxRc == 3

\* --------------------------------------------------------------- constants
None == -1

MSBUILD == <<"C:\\Program Files\\Microsoft Visual Studio\\2022\\Enterprise\\MSBuild\\Current\\Bin\\MSBuild.exe">>

VSTEST == <<"C:\\Program Files\\Microsoft Visual Studio\\2022\\Enterprise\\Common7\\IDE\\CommonExtensions\\Microsoft\\TestWindow\\vstest.console.exe">>

REPO_ROOT == <<"REPO_ROOT">>

OTHER_DIR == <<"C:\\Users\\dev">>

TEST_PROJECT == REPO_ROOT \o <<"\\tests\\DaxStudio.Tests\\DaxStudio.Tests.csproj">>

TEST_DLL == REPO_ROOT \o <<"\\src\\bin\\Debug\\DaxStudio.Tests.dll">>

EXE_PATH == REPO_ROOT \o <<"\\src\\bin\\Debug\\DaxStudio.exe">>

DOC == <<"__doc__">>

\* ------------------------------------------------------------ str.lower()
Uppercase == <<"A","B","C","D","E","F","G","H","I","J","K","L","M",
               "N","O","P","Q","R","S","T","U","V","W","X","Y","Z">>

Lowercase == <<"a","b","c","d","e","f","g","h","i","j","k","l","m",
               "n","o","p","q","r","s","t","u","v","w","x","y","z">>

LowerChar(c) ==
    IF \E i \in DOMAIN Uppercase : Uppercase[i] = c
    THEN Lowercase[CHOOSE i \in DOMAIN Uppercase : Uppercase[i] = c]
    ELSE c

lower_identity(s) == s

lower(s) == [i \in DOMAIN s |-> LowerChar(s[i])]

\* ' '.join(args)
RECURSIVE Join(_)
Join(args) ==
    IF Len(args) = 0 THEN <<>>
    ELSE IF Len(args) = 1 THEN args[1]
    ELSE args[1] \o <<" ">> \o Join(Tail(args))

\* ------------------------------------------------------------------ inputs
W_build == <<"b","u","i","l","d">>
W_BUILD == <<"B","U","I","L","D">>
W_Build == <<"B","u","i","l","d">>
W_rebuild == <<"r","e","b","u","i","l","d">>
W_ReBuild == <<"R","e","B","u","i","l","d">>
W_restore == <<"r","e","s","t","o","r","e">>
W_RESTORE == <<"R","E","S","T","O","R","E">>
W_test == <<"t","e","s","t">>
W_Test == <<"T","e","s","t">>
W_run == <<"r","u","n">>
W_RUN == <<"R","U","N">>
W_foo == <<"f","o","o">>
W_builds == <<"b","u","i","l","d","s">>
W_empty == <<>>
W_filter == <<"N","a","m","e","~","Q">>

ActionWords == {W_build, W_BUILD, W_Build, W_rebuild, W_ReBuild, W_restore,
                W_RESTORE, W_test, W_Test, W_run, W_RUN, W_foo, W_builds,
                W_empty}

ArgWords == {W_empty, W_filter, W_build}

ArgvInputs ==
    {<<>>} \cup
    UNION {{<<a>> \o rest : a \in ActionWords, rest \in [1..n -> ArgWords]} :
           n \in 0..(MaxArgs - 1)}

ExitCodes == 0..MaxRc

\* -------------------------------------------------------------------- Init
Init ==
    /\ argv \in ArgvInputs
    /\ cwd \in {REPO_ROOT, OTHER_DIR}
    /\ tools \in SUBSET {MSBUILD, VSTEST}
    /\ files \in SUBSET {TEST_DLL, EXE_PATH}
    /\ pc = "main"
    /\ stdout = <<>>
    /\ procs = <<>>
    /\ checks = <<>>
    /\ exitCode = None
    /\ uncaught = FALSE

\* ------------------------------------------------------------ process model
\* One entry of procs: a Tool Command handed to subprocess.run (blocking)
\* or subprocess.Popen (not blocking), with the state of the child:
\* "running", "exited" (rc is its exit code) or "failed" (process creation
\* raised OSError, no child exists).
Proc(args, dir, blocking, state) ==
    [args |-> args, cwd |-> dir, blocking |-> blocking, state |-> state, rc |-> None]

RunCwd == REPO_ROOT

PopenCwd_Inherited == cwd

PopenCwd == REPO_ROOT

WriteOut(out, line) == Append(out, line)

\* run_cmd's "if check and result.returncode != 0"
ShouldAbort_Never(check, returncode) == FALSE

ShouldAbort(check, returncode) == check /\ returncode # 0

\* the check argument test() passes to run_cmd for the test runner
TestRunnerCheck_True == TRUE

TestRunnerCheck == FALSE

\* "not os.path.exists(path)"
Missing_Always(path) == TRUE

Missing(path) == path \notin files

BuildArgs == <<MSBUILD, TEST_PROJECT, <<"-t:Build">>, <<"-p:Configuration=Debug">>, <<"-v:minimal">>, <<"-m">> >>

RebuildArgs == <<MSBUILD, TEST_PROJECT, <<"-t:Rebuild">>, <<"-p:Configuration=Debug">>, <<"-v:minimal">>, <<"-m">> >>

RestoreArgs == <<MSBUILD, TEST_PROJECT, <<"-t:Restore">>, <<"-p:Configuration=Debug">>, <<"-v:minimal">> >>

FilterPattern_Last == IF Len(argv) + 1 > 2 THEN <<argv[Len(argv)]>> ELSE <<>>

\* filter_pattern is <<>> for None and <<s>> for the string s
FilterPattern == IF Len(argv) + 1 > 2 THEN <<argv[2]>> ELSE <<>>

\* Python truth value of filter_pattern: None and "" are false
Truthy(fp) == fp # <<>> /\ fp[1] # <<>>

FilterFlag == <<"--TestCaseFilter:">>

DefaultFilter == FilterFlag \o <<"FullyQualifiedName~VisualQueryPlan">>

TestArgs(fp) ==
    <<VSTEST, TEST_DLL>>
    \o (IF Truthy(fp) THEN <<FilterFlag \o fp[1]>> ELSE <<DefaultFilter>>)
    \o << <<"--logger:console;verbosity=minimal">> >>

\* An uncaught exception: traceback, interpreter exits with status 1.
Crash ==
    /\ pc' = "done"
    /\ exitCode' = 1
    /\ uncaught' = TRUE

\* sys.exit(code), or main() returning (code 0)
Exit(code) ==
    /\ pc' = "done"
    /\ exitCode' = code
    /\ uncaught' = FALSE

\* run_cmd up to the point where subprocess.run blocks: print the command,
\* create the child in REPO_ROOT.  The child exists only if the executable
\* is installed; otherwise subprocess.run raises and nothing catches it.
RunCmdStart(out, args, waitPc) ==
    /\ stdout' = WriteOut(out, <<">>> ">> \o Join(args))
    /\ IF args[1] \in tools
       THEN /\ procs' = Append(procs, Proc(args, RunCwd, TRUE, "running"))
            /\ pc' = waitPc
            /\ UNCHANGED <<exitCode, uncaught>>
       ELSE /\ procs' = Append(procs, Proc(args, RunCwd, TRUE, "failed"))
            /\ Crash

Launch_PrintFirst(out) ==
    \E ok \in BOOLEAN :
        /\ ok => EXE_PATH \in files
        /\ stdout' = WriteOut(out, <<"Launched: ">> \o EXE_PATH)
        /\ IF ok
           THEN /\ procs' = Append(procs, Proc(<<EXE_PATH>>, PopenCwd, FALSE, "running"))
                /\ Exit(0)
           ELSE /\ procs' = Append(procs, Proc(<<EXE_PATH>>, PopenCwd, FALSE, "failed"))
                /\ Crash

\* subprocess.Popen([EXE_PATH], cwd=REPO_ROOT); print("Launched: ...");
\* then run_app and main return.  Popen raises when the file is not there
\* (and may raise when it is, e.g. not executable).
Launch(out) ==
    \E ok \in BOOLEAN :
        /\ ok => EXE_PATH \in files
        /\ IF ok
           THEN /\ procs' = Append(procs, Proc(<<EXE_PATH>>, PopenCwd, FALSE, "running"))
                /\ stdout' = WriteOut(out, <<"Launched: ">> \o EXE_PATH)
                /\ Exit(0)
           ELSE /\ procs' = Append(procs, Proc(<<EXE_PATH>>, PopenCwd, FALSE, "failed"))
                /\ stdout' = out
                /\ Crash

LastProc == procs[Len(procs)]

Returned_NoWait == Len(procs) > 0 /\ LastProc.blocking /\ LastProc.state # "failed"

Returned == Len(procs) > 0 /\ LastProc.blocking /\ LastProc.state = "exited"

\* ------------------------------------------------------------------- main
cmd == lower(argv[1])

MainUsage_ExitZero ==
    /\ pc = "main"
    /\ Len(argv) + 1 < 2
    /\ stdout' = WriteOut(stdout, DOC)
    /\ Exit(0)
    /\ UNCHANGED <<argv, cwd, tools, files, procs, checks>>

MainUsage ==
    /\ pc = "main"
    /\ Len(argv) + 1 < 2
    /\ stdout' = WriteOut(stdout, DOC)
    /\ Exit(1)
    /\ UNCHANGED <<argv, cwd, tools, files, procs, checks>>

MainBuild ==
    /\ pc = "main"
    /\ Len(argv) + 1 >= 2
    /\ cmd = W_build
    /\ RunCmdStart(stdout, BuildArgs, "build")
    /\ UNCHANGED <<argv, cwd, tools, files, checks>>

MainRebuild ==
    /\ pc = "main"
    /\ Len(argv) + 1 >= 2
    /\ cmd = W_rebuild
    /\ RunCmdStart(stdout, RebuildArgs, "build")
    /\ UNCHANGED <<argv, cwd, tools, files, checks>>

MainRestore ==
    /\ pc = "main"
    /\ Len(argv) + 1 >= 2
    /\ cmd = W_restore
    /\ RunCmdStart(stdout, RestoreArgs, "build")
    /\ UNCHANGED <<argv, cwd, tools, files, checks>>

\* main's test branch and test() up to its first blocking call
MainTest ==
    /\ pc = "main"
    /\ Len(argv) + 1 >= 2
    /\ cmd = W_test
    /\ checks' = Append(checks, <<TEST_DLL, TEST_DLL \in files>>)
    /\ IF Missing(TEST_DLL)
       THEN RunCmdStart(
                WriteOut(WriteOut(stdout, <<"Test DLL not found at: ">> \o TEST_DLL),
                         <<"Building test project...">>),
                BuildArgs, "test_build")
       ELSE RunCmdStart(stdout, TestArgs(FilterPattern), "test_run")
    /\ UNCHANGED <<argv, cwd, tools, files>>

\* main's run branch and run_app() up to its first blocking call
MainRun ==
    /\ pc = "main"
    /\ Len(argv) + 1 >= 2
    /\ cmd = W_run
    /\ checks' = Append(checks, <<EXE_PATH, EXE_PATH \in files>>)
    /\ IF Missing(EXE_PATH)
       THEN RunCmdStart(WriteOut(stdout, <<"DaxStudio.exe not found, building first...">>),
                        BuildArgs, "run_build")
       ELSE Launch(stdout)
    /\ UNCHANGED <<argv, cwd, tools, files>>

MainUnknown_FallsToBuild ==
    /\ pc = "main"
    /\ Len(argv) + 1 >= 2
    /\ cmd \notin {W_build, W_rebuild, W_restore, W_test, W_run}
    /\ RunCmdStart(WriteOut(WriteOut(stdout, <<"Unknown command: ">> \o cmd), DOC),
                   BuildArgs, "build")
    /\ UNCHANGED <<argv, cwd, tools, files, checks>>

MainUnknown ==
    /\ pc = "main"
    /\ Len(argv) + 1 >= 2
    /\ cmd \notin {W_build, W_rebuild, W_restore, W_test, W_run}
    /\ stdout' = WriteOut(WriteOut(stdout, <<"Unknown command: ">> \o cmd), DOC)
    /\ Exit(1)
    /\ UNCHANGED <<argv, cwd, tools, files, procs, checks>>

\* ------------------------------------------------------- external processes
\* The blocking child (build driver or test runner) exits with some code.
\* The build driver may create or remove the artifacts while it runs.
ToolExit ==
    /\ Len(procs) > 0
    /\ LastProc.blocking
    /\ LastProc.state = "running"
    /\ \E rc \in ExitCodes :
        procs' = [procs EXCEPT ![Len(procs)].state = "exited", ![Len(procs)].rc = rc]
    /\ IF LastProc.args[1] = MSBUILD
       THEN files' \in SUBSET {TEST_DLL, EXE_PATH}
       ELSE files' = files
    /\ UNCHANGED <<argv, cwd, tools, pc, stdout, checks, exitCode, uncaught>>

AppExit_Forwarded ==
    /\ \E i \in DOMAIN procs, rc \in ExitCodes :
        /\ ~procs[i].blocking
        /\ procs[i].state = "running"
        /\ procs' = [procs EXCEPT ![i].state = "exited", ![i].rc = rc]
        /\ exitCode' = rc
    /\ UNCHANGED <<argv, cwd, tools, files, pc, stdout, checks, uncaught>>

\* The launched application exits, at any time after the launch.
AppExit ==
    /\ \E i \in DOMAIN procs, rc \in ExitCodes :
        /\ ~procs[i].blocking
        /\ procs[i].state = "running"
        /\ procs' = [procs EXCEPT ![i].state = "exited", ![i].rc = rc]
    /\ UNCHANGED <<argv, cwd, tools, files, pc, stdout, checks, exitCode, uncaught>>

BuildReturn_Retry ==
    /\ pc = "build"
    /\ Returned
    /\ IF ShouldAbort(TRUE, LastProc.rc)
       THEN IF Len(procs) < 2
            THEN RunCmdStart(stdout, LastProc.args, "build")
            ELSE /\ Exit(LastProc.rc)
                 /\ UNCHANGED <<stdout, procs>>
       ELSE /\ Exit(0)
            /\ UNCHANGED <<stdout, procs>>
    /\ UNCHANGED <<argv, cwd, tools, files, checks>>

\* ------------------------------------------------ after subprocess.run returns
\* build / rebuild / restore: run_cmd's check, then main returns
BuildReturn ==
    /\ pc = "build"
    /\ Returned
    /\ IF ShouldAbort(TRUE, LastProc.rc) THEN Exit(LastProc.rc) ELSE Exit(0)
    /\ UNCHANGED <<argv, cwd, tools, files, stdout, procs, checks>>

TestBuildReturn_NoRecheck ==
    /\ pc = "test_build"
    /\ Returned
    /\ IF ShouldAbort(TRUE, LastProc.rc)
       THEN /\ Exit(LastProc.rc)
            /\ UNCHANGED <<stdout, procs>>
       ELSE RunCmdStart(stdout, TestArgs(FilterPattern), "test_run")
    /\ UNCHANGED <<argv, cwd, tools, files, checks>>

\* test(): the prerequisite build returned
TestBuildReturn ==
    /\ pc = "test_build"
    /\ Returned
    /\ IF ShouldAbort(TRUE, LastProc.rc)
       THEN /\ Exit(LastProc.rc)
            /\ UNCHANGED <<stdout, procs, checks>>
       ELSE /\ checks' = Append(checks, <<TEST_DLL, TEST_DLL \in files>>)
            /\ IF Missing(TEST_DLL)
               THEN /\ stdout' = stdout \o
                          << <<"\n============">>,
                             <<"ERROR: Build completed but test DLL was not created.">>,
                             <<"Expected location: ">> \o TEST_DLL,
                             <<"\nPossible causes:">>,
                             <<"  1. Build failed with errors (check output above)">>,
                             <<"  2. Output path configuration differs from expected">>,
                             <<"\nTry running 'python build.py rebuild' for a clean build.">>,
                             <<"============">> >>
                    /\ Exit(1)
                    /\ UNCHANGED procs
               ELSE RunCmdStart(stdout, TestArgs(FilterPattern), "test_run")
    /\ UNCHANGED <<argv, cwd, tools, files>>

\* test(): the test runner returned; run_cmd(args, check=False), main returns
TestReturn ==
    /\ pc = "test_run"
    /\ Returned
    /\ IF ShouldAbort(TestRunnerCheck, LastProc.rc) THEN Exit(LastProc.rc) ELSE Exit(0)
    /\ UNCHANGED <<argv, cwd, tools, files, stdout, procs, checks>>

RunBuildReturn_Recheck ==
    /\ pc = "run_build"
    /\ Returned
    /\ IF ShouldAbort(TRUE, LastProc.rc)
       THEN /\ Exit(LastProc.rc)
            /\ UNCHANGED <<stdout, procs, checks>>
       ELSE /\ checks' = Append(checks, <<EXE_PATH, EXE_PATH \in files>>)
            /\ IF Missing(EXE_PATH)
               THEN /\ Exit(1)
                    /\ UNCHANGED <<stdout, procs>>
               ELSE Launch(stdout)
    /\ UNCHANGED <<argv, cwd, tools, files>>

\* run_app(): the prerequisite build returned
RunBuildReturn ==
    /\ pc = "run_build"
    /\ Returned
    /\ IF ShouldAbort(TRUE, LastProc.rc)
       THEN /\ Exit(LastProc.rc)
            /\ UNCHANGED <<stdout, procs>>
       ELSE Launch(stdout)
    /\ UNCHANGED <<argv, cwd, tools, files, checks>>

\* ----------------------------------------------------- main as a function
\* What the i-th subprocess call and the i-th os.path.exists call of this
\* run returned (defaults when the run made fewer calls).
ObsState(i) == IF i <= Len(procs) THEN procs[i].state ELSE "none"

ObsRc(i) == IF i <= Len(procs) THEN procs[i].rc ELSE None

ObsExists(i) == IF i <= Len(checks) THEN checks[i][2] ELSE FALSE

\* main(), build(), rebuild(), restore(), test(), run_app() and run_cmd()
\* read as one function of sys.argv[1:] = a and of the results above: the
\* commands handed to subprocess, in order, and the exit status.
Outcome(a) ==
    LET c == lower(a[1])
        fp == IF Len(a) + 1 > 2 THEN <<a[2]>> ELSE <<>>
        ran(i, check) ==
            IF ObsState(i) = "failed" THEN 1
            ELSE IF ShouldAbort(check, ObsRc(i)) THEN ObsRc(i)
            ELSE 0
        aborted(i) == ObsState(i) = "failed" \/ ShouldAbort(TRUE, ObsRc(i))
        single(args) == [cmds |-> <<args>>, exit |-> ran(1, TRUE)]
        runner(i, pre) == [cmds |-> pre \o <<TestArgs(fp)>>, exit |-> ran(i, TestRunnerCheck)]
        launch(i, pre) == [cmds |-> pre \o << <<EXE_PATH>> >>,
                           exit |-> IF ObsState(i) = "failed" THEN 1 ELSE 0]
    IN  IF Len(a) + 1 < 2 THEN [cmds |-> <<>>, exit |-> 1]
        ELSE IF c = W_build THEN single(BuildArgs)
        ELSE IF c = W_rebuild THEN single(RebuildArgs)
        ELSE IF c = W_restore THEN single(RestoreArgs)
        ELSE IF c = W_test THEN
            IF ObsExists(1) THEN runner(1, <<>>)
            ELSE IF aborted(1) THEN [cmds |-> <<BuildArgs>>, exit |-> ran(1, TRUE)]
            ELSE IF ~ObsExists(2) THEN [cmds |-> <<BuildArgs>>, exit |-> 1]
            ELSE runner(2, <<BuildArgs>>)
        ELSE IF c = W_run THEN
            IF ObsExists(1) THEN launch(1, <<>>)
            ELSE IF aborted(1) THEN [cmds |-> <<BuildArgs>>, exit |-> ran(1, TRUE)]
            ELSE launch(2, <<BuildArgs>>)
        ELSE [cmds |-> <<>>, exit |-> 1]

Next ==
    \/ MainUsage
    \/ MainBuild
    \/ MainRebuild
    \/ MainRestore
    \/ MainTest
    \/ MainRun
    \/ MainUnknown
    \/ ToolExit
    \/ AppExit
    \/ BuildReturn
    \/ TestBuildReturn
    \/ TestReturn
    \/ RunBuildReturn

Spec == Init /\ [][Next]_vars

\* The steps of the script itself.  The interpreter always goes on to its
\* next statement; nothing makes an external tool exit.
OrchestratorStep ==
    \/ MainUsage
    \/ MainBuild
    \/ MainRebuild
    \/ MainRestore
    \/ MainTest
    \/ MainRun
    \/ MainUnknown
    \/ BuildReturn
    \/ TestBuildReturn
    \/ TestReturn
    \/ RunBuildReturn

LiveSpec == Spec /\ WF_vars(OrchestratorStep)

TypeOK ==
    /\ pc \in {"main", "build", "test_build", "test_run", "run_build", "done"}
    /\ exitCode \in ExitCodes \cup {None}
    /\ (pc = "done") = (exitCode # None)

\* ================================================================ properties
\* Case-insensitive comparison of two words, stated letter by letter.
SameLetter(c, d) ==
    \/ c = d
    \/ \E i \in DOMAIN Uppercase : {c, d} = {Uppercase[i], Lowercase[i]}

EqualsIgnoreCase(a, b) ==
    /\ Len(a) = Len(b)
    /\ \A i \in DOMAIN a : SameLetter(a[i], b[i])

Invoked(w) == Len(argv) >= 1 /\ EqualsIgnoreCase(argv[1], w)

BuildDrivers == {i \in DOMAIN procs : procs[i].args[1] = MSBUILD}

TestRunners == {i \in DOMAIN procs : procs[i].args[1] = VSTEST}

Apps == {i \in DOMAIN procs : ~procs[i].blocking}

\* C1: with no action argument the dispatcher prints the usage text and
\* exits with code 1, and no external process is ever started, whatever
\* the artifact presence flags are.
C1_NoArgsUsage ==
    Len(argv) = 0 =>
        /\ procs = <<>>
        /\ pc \in {"main", "done"}
        /\ pc = "done" => (stdout = <<DOC>> /\ exitCode = 1)

C1_Witness ==
    /\ Len(argv) = 0
    /\ pc = "done"
    /\ exitCode = 1
    /\ files = {TEST_DLL}

\* C2: when the first argument, compared case-insensitively, is none of
\* build, rebuild, restore, test, run, the dispatcher prints an
\* unknown-command message followed by the usage text and exits with
\* code 1, and no external process is ever started.
C2_UnknownCommand ==
    (Len(argv) >= 1 /\ \A w \in {W_build, W_rebuild, W_restore, W_test, W_run} : ~Invoked(w)) =>
        /\ procs = <<>>
        /\ pc \in {"main", "done"}
        /\ pc = "done" =>
            /\ Len(stdout) = 2
            /\ Len(stdout[1]) >= 1
            /\ stdout[1][1] = "Unknown command: "
            /\ stdout[2] = DOC
            /\ exitCode = 1

C2_Witness ==
    /\ Len(argv) >= 1
    /\ argv[1] = W_foo
    /\ pc = "done"
    /\ exitCode = 1
    /\ Len(stdout) = 2

\* C3: build, rebuild and restore execute exactly one build-driver command
\* (with the Build, Rebuild, Restore target respectively); the overall exit
\* code equals that command's exit code, zero or not, and nothing else is
\* executed.
C3_BuildExitCode ==
    \A op \in {<<W_build, BuildArgs>>, <<W_rebuild, RebuildArgs>>, <<W_restore, RestoreArgs>>} :
        Invoked(op[1]) =>
            /\ Len(procs) <= 1
            /\ \A i \in DOMAIN procs : procs[i].args = op[2] /\ procs[i].blocking
            /\ pc = "done" =>
                /\ Len(procs) = 1
                /\ procs[1].state # "running"
                /\ procs[1].state = "exited" => exitCode = procs[1].rc

C3_Witness ==
    /\ Invoked(W_rebuild)
    /\ pc = "done"
    /\ Len(procs) = 1
    /\ procs[1].state = "exited"
    /\ procs[1].rc = 2
    /\ exitCode = 2

\* C4: for test and run, when the prerequisite build has exited with a
\* nonzero code, the test runner (respectively the application) is never
\* started and the overall exit code is the build's exit code.
C4_PrerequisiteFailure ==
    ((Invoked(W_test) \/ Invoked(W_run))
        /\ \E i \in BuildDrivers : procs[i].state = "exited" /\ procs[i].rc # 0) =>
        /\ TestRunners = {}
        /\ Apps = {}
        /\ Len(procs) = 1
        /\ pc \in {"test_build", "run_build", "done"}
        /\ pc = "done" => exitCode = procs[1].rc

C4_Witness ==
    /\ Invoked(W_run)
    /\ pc = "done"
    /\ Len(procs) = 1
    /\ procs[1].args = BuildArgs
    /\ procs[1].state = "exited"
    /\ procs[1].rc = 3
    /\ exitCode = 3

\* C5: for test, when the test artifact is present at the initial check no
\* prerequisite build is executed; when it is absent exactly one is, and
\* it has exited before any test runner is started.
C5_PrerequisiteBuildCount ==
    (Invoked(W_test) /\ Len(checks) >= 1) =>
        IF checks[1][2]
        THEN BuildDrivers = {}
        ELSE /\ BuildDrivers = {1}
             /\ procs[1].args = BuildArgs
             /\ \A j \in TestRunners : j > 1 /\ procs[1].state = "exited"

C5_Witness ==
    /\ Invoked(W_test)
    /\ Len(checks) >= 1
    /\ checks[1] = <<TEST_DLL, FALSE>>
    /\ Len(procs) = 2
    /\ procs[1].state = "exited"
    /\ procs[2].args[1] = VSTEST
    /\ procs[2].state = "running"

\* C6: for test, the test-runner command contains exactly one
\* test-case-filter token: the default category filter when no filter
\* argument is supplied, and the literal supplied filter (for every
\* supplied string, the empty string included) otherwise.
C6_FilterToken ==
    Invoked(W_test) =>
        \A i \in TestRunners :
            LET a == procs[i].args
                toks == {k \in DOMAIN a : Len(a[k]) >= 1 /\ a[k][1] = FilterFlag[1]}
            IN  /\ Cardinality(toks) = 1
                /\ \A k \in toks :
                    a[k] = IF Len(argv) >= 2 THEN FilterFlag \o argv[2] ELSE DefaultFilter

\* C7: for test, a nonzero exit code of the test runner is not fatal:
\* once the test runner has run, the orchestrator completes normally with
\* exit code 0, for every runner exit code.
C7_TestRunnerNonFatal ==
    (Invoked(W_test) /\ pc = "done"
        /\ \E i \in TestRunners : procs[i].state = "exited") =>
        /\ exitCode = 0
        /\ ~uncaught

C7_Witness ==
    /\ Invoked(W_test)
    /\ pc = "done"
    /\ Len(procs) = 1
    /\ procs[1].args[1] = VSTEST
    /\ procs[1].state = "exited"
    /\ procs[1].rc = 3
    /\ exitCode = 0

\* C8 as stated: for test, whenever the test runner is executed the
\* overall exit code equals the test runner's exit code.
C8_Original ==
    (Invoked(W_test) /\ pc = "done") =>
        \A i \in TestRunners :
            procs[i].state = "exited" => exitCode = procs[i].rc

\* C8: for test, whenever the test runner is executed the overall exit
\* code equals the test runner's exit code only when that code is 0
\* (the overall exit code is 0 whatever the runner returns).
C8_ExitCodeMatchesOnlyZero ==
    (Invoked(W_test) /\ pc = "done") =>
        \A i \in TestRunners :
            procs[i].state = "exited" => ((exitCode = procs[i].rc) <=> (procs[i].rc = 0))

C8_Witness ==
    /\ Invoked(W_test)
    /\ pc = "done"
    /\ Len(procs) = 2
    /\ procs[2].args[1] = VSTEST
    /\ procs[2].state = "exited"
    /\ procs[2].rc = 1
    /\ exitCode = 0

\* C9: for run, the launch is fire-and-forget: as soon as the application
\* has been started the orchestrator has terminated with exit code 0, while
\* the application is still running, and that exit code stays 0 however the
\* application exits later.
C9_FireAndForget ==
    (Invoked(W_run) /\ \E i \in Apps : procs[i].state \in {"running", "exited"}) =>
        /\ pc = "done"
        /\ exitCode = 0
        /\ ~uncaught

C9_Witness ==
    /\ Invoked(W_run)
    /\ pc = "done"
    /\ exitCode = 0
    /\ Len(procs) = 1
    /\ procs[1].args = <<EXE_PATH>>
    /\ procs[1].state = "running"

\* C10: every external process that has been started (build driver, test
\* runner, launched application) was started with the repository root as
\* its working directory.
C10_WorkingDirectory ==
    \A i \in DOMAIN procs : procs[i].cwd = REPO_ROOT

C10_Witness ==
    /\ cwd = OTHER_DIR
    /\ Len(procs) = 2
    /\ procs[1].args = BuildArgs
    /\ procs[1].cwd = REPO_ROOT
    /\ procs[2].args = <<EXE_PATH>>
    /\ procs[2].state = "running"
    /\ procs[2].cwd = REPO_ROOT

\* C11: the number of commands executed is bounded: exactly one for build,
\* rebuild and restore; for test and run at most one prerequisite build and
\* at most one primary command, the prerequisite having exited before the
\* primary is started; no command is executed a second time, so the build
\* driver runs at most once per invocation.
C11_CommandCount ==
    /\ Cardinality(BuildDrivers) <= 1
    /\ \A i, j \in DOMAIN procs : i # j => procs[i].args # procs[j].args
    /\ (Invoked(W_build) \/ Invoked(W_rebuild) \/ Invoked(W_restore)) =>
        /\ Len(procs) <= 1
        /\ pc # "main" => Len(procs) = 1
    /\ (Invoked(W_test) \/ Invoked(W_run)) =>
        /\ Cardinality(TestRunners \cup Apps) <= 1
        /\ Len(procs) = Cardinality(BuildDrivers) + Cardinality(TestRunners \cup Apps)
        /\ \A b \in BuildDrivers : \A p \in TestRunners \cup Apps :
             b < p /\ procs[b].state = "exited"
    /\ Invoked(W_test) => Apps = {}
    /\ Invoked(W_run) => TestRunners = {}

C11_Witness ==
    /\ Invoked(W_run)
    /\ pc = "done"
    /\ Len(procs) = 2
    /\ procs[1].args = BuildArgs
    /\ procs[1].state = "exited"
    /\ procs[1].rc = 0
    /\ procs[2].args = <<EXE_PATH>>
    /\ procs[2].state = "exited"

\* C13: for test, if the artifact is absent at the initial check, the
\* prerequisite build exits 0 and the artifact is still absent once the
\* build has returned, the orchestrator terminates with exit code 1 and the
\* test runner is never executed.
C13_StillMissingAfterBuild ==
    (/\ Invoked(W_test)
     /\ Len(checks) >= 1
     /\ ~checks[1][2]
     /\ Len(procs) >= 1
     /\ procs[1].state = "exited"
     /\ procs[1].rc = 0
     /\ TEST_DLL \notin files
     /\ pc # "test_build") =>
        /\ pc = "done"
        /\ exitCode = 1
        /\ ~uncaught
        /\ TestRunners = {}
        /\ Len(checks) = 2
        /\ checks[2] = <<TEST_DLL, FALSE>>

C13_Witness ==
    /\ Invoked(W_test)
    /\ Len(checks) = 2
    /\ checks[1] = <<TEST_DLL, FALSE>>
    /\ checks[2] = <<TEST_DLL, FALSE>>
    /\ Len(procs) = 1
    /\ procs[1].state = "exited"
    /\ procs[1].rc = 0
    /\ VSTEST \in tools
    /\ pc = "done"
    /\ exitCode = 1

\* C15: for run, the artifact presence is checked exactly once, before any
\* build: when the artifact is present no build is executed and the launch
\* happens directly; when it is absent and the prerequisite build exits 0,
\* the launch is attempted exactly once, whether or not the artifact exists
\* by then (no re-check, no artifact-still-missing exit).
C15_RunSingleCheck ==
    (Invoked(W_run) /\ pc # "main") =>
        /\ Len(checks) = 1
        /\ checks[1][1] = EXE_PATH
        /\ checks[1][2] =>
            /\ BuildDrivers = {}
            /\ Len(procs) = 1
            /\ procs[1].args = <<EXE_PATH>>
            /\ pc = "done"
        /\ (/\ ~checks[1][2]
            /\ procs[1].state = "exited"
            /\ procs[1].rc = 0
            /\ pc # "run_build") =>
            /\ Len(procs) = 2
            /\ procs[2].args = <<EXE_PATH>>
            /\ Apps = {2}
            /\ pc = "done"

C15_Witness ==
    /\ Invoked(W_run)
    /\ pc = "done"
    /\ checks = << <<EXE_PATH, FALSE>> >>
    /\ Len(procs) = 2
    /\ procs[1].state = "exited"
    /\ procs[1].rc = 0
    /\ EXE_PATH \notin files
    /\ procs[2].args = <<EXE_PATH>>
    /\ procs[2].state = "failed"

\* C16: if creating an external process fails, the orchestrator terminates
\* with a nonzero exit code, executes no further command afterwards, and
\* for run does not report the path as launched.
C16_ProcessCreationFailure ==
    \A i \in DOMAIN procs :
        procs[i].state = "failed" =>
            /\ i = Len(procs)
            /\ pc = "done"
            /\ exitCode # None
            /\ exitCode # 0
            /\ uncaught
            /\ \A k \in DOMAIN stdout :
                 ~(Len(stdout[k]) >= 1 /\ stdout[k][1] = "Launched: ")

C16_Witness ==
    /\ Invoked(W_run)
    /\ pc = "done"
    /\ Len(procs) = 1
    /\ procs[1].args = <<EXE_PATH>>
    /\ procs[1].state = "failed"
    /\ EXE_PATH \in files
    /\ exitCode = 1

\* C14 as stated: for test, whenever the artifact is absent at the initial
\* check and the prerequisite build exits 0, the test runner is executed
\* exactly once and the flow completes without abort for every exit code
\* the test runner returns.
C14_Original ==
    (/\ Invoked(W_test)
     /\ pc = "done"
     /\ Len(checks) >= 1
     /\ ~checks[1][2]
     /\ procs[1].state = "exited"
     /\ procs[1].rc = 0) =>
        /\ Cardinality(TestRunners) = 1
        /\ \A r \in TestRunners :
             procs[r].state = "exited" => (exitCode = 0 /\ ~uncaught)

\* C14: for test, whenever the artifact is absent at the initial check, the
\* prerequisite build exits 0 and the artifact exists at the re-check after
\* the build, the test runner is executed exactly once, after the build, and
\* the flow completes without abort (exit code 0) for every exit code the
\* test runner returns.
C14_BuildThenTest ==
    (/\ Invoked(W_test)
     /\ Len(checks) >= 2
     /\ ~checks[1][2]
     /\ checks[2][2]
     /\ procs[1].state = "exited"
     /\ procs[1].rc = 0) =>
        /\ TestRunners = {2}
        /\ Len(procs) = 2
        /\ pc \in {"test_run", "done"}
        /\ (pc = "done" /\ procs[2].state = "exited") => (exitCode = 0 /\ ~uncaught)

C14_Witness ==
    /\ Invoked(W_test)
    /\ pc = "done"
    /\ checks = << <<TEST_DLL, FALSE>>, <<TEST_DLL, TRUE>> >>
    /\ Len(procs) = 2
    /\ procs[1].rc = 0
    /\ procs[2].args[1] = VSTEST
    /\ procs[2].state = "exited"
    /\ procs[2].rc = 3
    /\ exitCode = 0

\* C19: every terminating failure caused by an external command (nonzero
\* build-driver exit, artifact still missing after the build, failed
\* process creation, the run launch included) is preceded on standard
\* output by the exact token sequence of the command that was attempted.
C19_FailureShowsCommand ==
    (pc = "done" /\ Len(procs) >= 1 /\ exitCode # 0) =>
        \E k \in DOMAIN stdout : stdout[k] = <<">>> ">> \o Join(LastProc.args)

\* The commands this run handed to subprocess, in order, and its exit status.
Actual == [cmds |-> [i \in DOMAIN procs |-> procs[i].args], exit |-> exitCode]

\* C12: action matching is case-insensitive: an invocation whose action
\* name differs from this one's only in letter case, with the same
\* remaining arguments, artifact presence and tool results, executes the
\* same sequence of commands and ends with the same exit code.
C12_CaseInsensitive ==
    (pc = "done" /\ Len(argv) >= 1) =>
        \A b \in ActionWords :
            EqualsIgnoreCase(b, argv[1]) => Outcome(<<b>> \o Tail(argv)) = Actual

C12_Witness ==
    /\ pc = "done"
    /\ Len(argv) = 2
    /\ argv[1] = W_Test
    /\ argv[2] = W_filter
    /\ Len(procs) = 2
    /\ procs[2].state = "exited"
    /\ procs[2].rc = 2

\* C18: extra arguments do not change behaviour: for build, rebuild,
\* restore and run the commands executed and the exit code are those of
\* the invocation without the arguments after the action name; for test
\* they are those of the invocation with the action name and the second
\* argument only.
C18_ExtraArgsIgnored ==
    (pc = "done" /\ Len(argv) >= 1) =>
        Actual = Outcome(IF Invoked(W_test) /\ Len(argv) >= 2
                         THEN <<argv[1], argv[2]>>
                         ELSE <<argv[1]>>)

C18_Witness ==
    /\ pc = "done"
    /\ Len(argv) = 3
    /\ Invoked(W_test)
    /\ argv[2] = W_filter
    /\ argv[3] = W_empty
    /\ Len(procs) = 1
    /\ procs[1].args = TestArgs(<<W_filter>>)
    /\ procs[1].state = "exited"

BlockingRunning == \E i \in DOMAIN procs : procs[i].blocking /\ procs[i].state = "running"

\* C17: blocking executions are strictly sequential: at most one build
\* driver or test runner is running at any time and the orchestrator takes
\* no step while it runs; if every blocking tool eventually exits the
\* orchestrator eventually terminates with a defined exit code, and if a
\* blocking tool never exits the orchestrator never terminates.
C17_SequentialBlocking ==
    /\ [](/\ Cardinality({i \in DOMAIN procs : procs[i].blocking /\ procs[i].state = "running"}) <= 1
          /\ BlockingRunning => pc \in {"build", "test_build", "test_run", "run_build"})
    /\ [][BlockingRunning =>
            /\ pc' = pc
            /\ stdout' = stdout
            /\ checks' = checks
            /\ exitCode' = exitCode
            /\ Len(procs') = Len(procs)]_vars
    /\ (BlockingRunning ~> ~BlockingRunning) => <>(pc = "done" /\ exitCode \in ExitCodes)
    /\ <>[]BlockingRunning => [](pc # "done")

C17_Witness ==
    /\ Invoked(W_test)
    /\ pc = "test_run"
    /\ Len(procs) = 2
    /\ procs[1].state = "exited"
    /\ procs[2].blocking
    /\ procs[2].state = "running"
    /\ exitCode = None

====
